---- MODULE Spec2Model ----
(***************************************************************************)
(* State-machine model of the SPiD line interpreter (Main-Parser-1.0.py):  *)
(* the command registry, the tokenizer, the value resolver, the argument   *)
(* shaping and dispatch of execute_line, the handlers, and the two loops   *)
(* of run() (script loop with a program counter, interactive shell loop).  *)
(*                                                                         *)
(* Text is modelled character by character: a Python str is a TLA+ string  *)
(* and every Python string operation of the source is an operator that     *)
(* walks the characters.  A Python float is modelled by an exact rational  *)
(* in lowest terms; the literals of the model are short decimals, for      *)
(* which the comparisons and the four operations agree with IEEE doubles.  *)
(***************************************************************************)
EXTENDS Integers, Sequences, FiniteSets, TLC

(***************************************************************************)
(* Characters and Python string primitives                                 *)
(***************************************************************************)
Ch(s, i) == SubSeq(s, i, i)

Least(S) == CHOOSE i \in S : \A j \in S : i <= j
Greatest(S) == CHOOSE i \in S : \A j \in S : i >= j

\* the first position >= i of character c in s, 0 when there is none
IndexOf(c, s, i) ==
    IF \A j \in i..Len(s) : Ch(s, j) # c THEN 0
    ELSE Least({j \in i..Len(s) : Ch(s, j) = c})

LowerChars == "abcdefghijklmnopqrstuvwxyz"
UpperChars == "ABCDEFGHIJKLMNOPQRSTUVWXYZ"
DigitChars == "0123456789"

\* the character at position i of 'to' when i > 0, else c itself
mapped_char(c, i, to) == IF i = 0 THEN c ELSE Ch(to, i)

upperChar(c) == mapped_char(c, IndexOf(c, LowerChars, 1), UpperChars)
lowerChar(c) == mapped_char(c, IndexOf(c, UpperChars, 1), LowerChars)

\* s.upper() and s.lower(), character by character (the text is halved at
\* each level to keep the evaluation shallow)
RECURSIVE upper(_)
upper(s) ==
    IF s = "" THEN ""
    ELSE IF Len(s) = 1 THEN upperChar(s)
    ELSE upper(SubSeq(s, 1, Len(s) \div 2))
         \o upper(SubSeq(s, Len(s) \div 2 + 1, Len(s)))

RECURSIVE lower(_)
lower(s) ==
    IF s = "" THEN ""
    ELSE IF Len(s) = 1 THEN lowerChar(s)
    ELSE lower(SubSeq(s, 1, Len(s) \div 2))
         \o lower(SubSeq(s, Len(s) \div 2 + 1, Len(s)))

\* s without its leading blanks
lstrip(s) ==
    IF \A j \in 1..Len(s) : Ch(s, j) = " " THEN ""
    ELSE SubSeq(s, Least({j \in 1..Len(s) : Ch(s, j) # " "}), Len(s))

\* s without its trailing blanks
rstrip(s) ==
    IF \A j \in 1..Len(s) : Ch(s, j) = " " THEN ""
    ELSE SubSeq(s, 1, Greatest({j \in 1..Len(s) : Ch(s, j) # " "}))

strip(s) == rstrip(lstrip(s))

\* s[i-1:j] as a Python slice: positions i..j, cut to the text's length
substr(s, i, j) == SubSeq(s, i, IF j > Len(s) THEN Len(s) ELSE j)

startswith(s, c) == Len(s) > 0 /\ Ch(s, 1) = c
endswith(s, c) == Len(s) > 0 /\ Ch(s, Len(s)) = c

\* s cut at position i: the part before it and the part after it (the whole
\* text when i = 0)
split_at(s, i) ==
    IF i = 0 THEN <<s>>
    ELSE <<SubSeq(s, 1, i - 1), SubSeq(s, i + 1, Len(s))>>

\* s.split(c, 1): the part before the first c, and the part after it
\* (one part when c does not occur).
split1(s, c) == split_at(s, IndexOf(c, s, 1))

\* ' '.join(items)
RECURSIVE join(_)
join(items) ==
    IF Len(items) = 0 THEN ""
    ELSE IF Len(items) = 1 THEN items[1]
    ELSE items[1] \o " " \o join(Tail(items))

\* items[k:] with a zero-based k, as a Python slice
slice_from(items, k) ==
    IF k >= Len(items) THEN <<>> ELSE SubSeq(items, k + 1, Len(items))

(***************************************************************************)
(* Values: Number (a rational n/d in lowest terms, d > 0) or Text.         *)
(* The null marker of the source is the Text "NULL".                       *)
(***************************************************************************)
RECURSIVE gcd(_, _)
gcd(a, b) == IF b = 0 THEN a ELSE gcd(b, a % b)

abs(a) == IF a < 0 THEN -a ELSE a

\* n/d divided through by g, with the sign carried by the numerator
lowest_terms(n, d, g) ==
    [t |-> "num", s |-> "", n |-> (IF d < 0 THEN -n ELSE n) \div g, d |-> abs(d) \div g]

Num(n, d) == lowest_terms(n, d, gcd(abs(n), abs(d)))

Str(s) == [t |-> "str", s |-> s, n |-> 0, d |-> 1]

IsNum(v) == v.t = "num"
IsStr(v) == v.t = "str"

num_lt(a, b) == a.n * b.d < b.n * a.d
num_gt(a, b) == a.n * b.d > b.n * a.d
num_eq(a, b) == a.n * b.d = b.n * a.d

all_digits(s) == \A j \in 1..Len(s) : IndexOf(Ch(s, j), DigitChars, 1) > 0

RECURSIVE digits_value(_)
digits_value(s) ==
    IF s = "" THEN 0
    ELSE digits_value(SubSeq(s, 1, Len(s) - 1)) * 10
         + (IndexOf(Ch(s, Len(s)), DigitChars, 1) - 1)

RECURSIVE pow10(_)
pow10(k) == IF k = 0 THEN 1 ELSE 10 * pow10(k - 1)

\* the text without a leading sign, and the sign
unsigned(s) ==
    IF startswith(s, "-") \/ startswith(s, "+") THEN SubSeq(s, 2, Len(s)) ELSE s
sign_of(s) == IF startswith(s, "-") THEN -1 ELSE 1

\* float(text) on a str: surrounding blanks are ignored, then an optional
\* sign and a decimal literal with at most one point and at least one digit.
\* ok = FALSE is Python's ValueError.  (Exponents, inf, nan and digit
\* underscores are literals no line of the model contains.)
\* ip, fp: the digits before and after the point
float_of_digits(text, sgn, ip, fp) ==
    IF all_digits(ip) /\ all_digits(fp) /\ Len(ip) + Len(fp) > 0
    THEN [ok |-> TRUE,
          v |-> Num(sgn * (digits_value(ip) * pow10(Len(fp)) + digits_value(fp)),
                    pow10(Len(fp)))]
    ELSE [ok |-> FALSE, v |-> Str(text)]

float_of_parts(text, sgn, parts) ==
    float_of_digits(text, sgn, parts[1], IF Len(parts) = 2 THEN parts[2] ELSE "")

float_of_stripped(text, t) == float_of_parts(text, sign_of(t), split1(unsigned(t), "."))

float_of_text(text) == float_of_stripped(text, strip(text))

\* float(value): a Number is itself, a Text is parsed
to_float(v) == IF IsNum(v) THEN [ok |-> TRUE, v |-> v] ELSE float_of_text(v.s)

\* int(text) on a str: blanks ignored, optional sign, digits only
int_of_body(sgn, body) ==
    IF Len(body) > 0 /\ all_digits(body)
    THEN [ok |-> TRUE, i |-> sgn * digits_value(body)]
    ELSE [ok |-> FALSE, i |-> 0]

int_of_stripped(t) == int_of_body(sign_of(t), unsigned(t))

int_of_text(text) == int_of_stripped(strip(text))

\* int(value): a Number is truncated towards zero, a Text is parsed
to_int(v) ==
    IF IsNum(v)
    THEN [ok |-> TRUE,
          i |-> IF v.n >= 0 THEN v.n \div v.d ELSE -((-v.n) \div v.d)]
    ELSE int_of_text(v.s)

(***************************************************************************)
(* The variable store: a Python dict, a function from keys to values.      *)
(***************************************************************************)
EmptyStore == [k \in {} |-> Str("")]

store_set(store, key, val) ==
    [k \in DOMAIN store \cup {key} |-> IF k = key THEN val ELSE store[k]]

(***************************************************************************)
(* ValueResolver                                                           *)
(***************************************************************************)
\* parse_value after the quoted-text test; f is the outcome of float(token)
parse_unquoted(token, store, f) ==
    IF f.ok THEN f.v
    ELSE IF token = "0" THEN Num(0, 1)
    ELSE IF token = "1" THEN Num(1, 1)
    ELSE IF upper(token) = "NULL" THEN Str("NULL")
    ELSE IF Str(token) \in DOMAIN store THEN store[Str(token)]
    ELSE Str(token)

parse_value(token, store) ==
    IF startswith(token, "\"") /\ endswith(token, "\"")
    THEN Str(SubSeq(token, 2, Len(token) - 1))
    ELSE parse_unquoted(token, store, float_of_text(token))

\* a scanner that splits on every space, quoted or not
tokenize_char_unquoted(sc, char) ==
    IF sc.escape
    THEN [sc EXCEPT !.current = @ \o char, !.escape = FALSE]
    ELSE IF char = "\\"
    THEN [sc EXCEPT !.escape = TRUE]
    ELSE IF char = "\""
    THEN [sc EXCEPT !.in_quotes = ~@, !.current = @ \o char]
    ELSE IF char = " "
    THEN IF sc.current # ""
         THEN [sc EXCEPT !.tokens = Append(@, sc.current), !.current = ""]
         ELSE sc
    ELSE [sc EXCEPT !.current = @ \o char]

(***************************************************************************)
(* Tokenizer                                                               *)
(***************************************************************************)
\* the body of 'for char in line': the scanner state after one character
tokenize_char(sc, char) ==
    IF sc.escape
    THEN [sc EXCEPT !.current = @ \o char, !.escape = FALSE]
    ELSE IF char = "\\"
    THEN [sc EXCEPT !.escape = TRUE]
    ELSE IF char = "\""
    THEN [sc EXCEPT !.in_quotes = ~@, !.current = @ \o char]
    ELSE IF char = " " /\ ~sc.in_quotes
    THEN IF sc.current # ""
         THEN [sc EXCEPT !.tokens = Append(@, sc.current), !.current = ""]
         ELSE sc
    ELSE [sc EXCEPT !.current = @ \o char]

\* the loop over the characters lo..hi of the line, in order (the range is
\* halved at each level to keep the evaluation shallow)
RECURSIVE tokenize_range(_, _, _, _)
tokenize_range(line, lo, hi, sc) ==
    IF lo > hi THEN sc
    ELSE IF lo = hi THEN tokenize_char(sc, Ch(line, lo))
    ELSE LET mid == (lo + hi) \div 2
             left == tokenize_range(line, lo, mid, sc)
         IN  IF left.escape \in BOOLEAN   \* the left half is scanned first
             THEN tokenize_range(line, mid + 1, hi, left)
             ELSE sc

\* lines 169-171: the token still being read when the line ends is the last
tokenize_end(sc) ==
    IF sc.current # "" THEN Append(sc.tokens, sc.current) ELSE sc.tokens

tokenize(line) ==
    tokenize_end(tokenize_range(line, 1, Len(line),
                    [tokens |-> <<>>, current |-> "", in_quotes |-> FALSE,
                     escape |-> FALSE]))

(***************************************************************************)
(* CommandRegistry: the grammar text and its one-shot parse                *)
(***************************************************************************)
SPiD_definition == <<
    "",
    "        main.spid<",
    "        TYPE=SPiD",
    "",
    "        # ARITHMETIC",
    "        ADD (VAR,VAL) (VAR,VAL) (VAR) [CMD=ARITH_ADD]",
    "        SUB (VAR,VAL) (VAR,VAL) (VAR) [CMD=ARITH_SUB]",
    "        MULT (VAR,VAL) (VAR,VAL) (VAR) [CMD=ARITH_MULT]",
    "        DIVS (VAR,VAL) (VAR,VAL) (VAR) [CMD=ARITH_DIV]",
    "",
    "        # LOGIC",
    "        IF (VAR,VAL) (VAR,VAL) (HIGH,LOW,EQUAL) (THEN,ELSE) (SCRIPT) [CMD=CMP]",
    "        BOOL (BIN) (VAR) [CMD=BOOL_SET]",
    "        AND (VAR) (VAR) (VAR) [CMD=LOGIC_AND]",
    "        OR (VAR) (VAR) (VAR) [CMD=LOGIC_OR]",
    "        NOR (VAR) (VAR) (VAR) [CMD=LOGIC_NOR]",
    "        XNOR (VAR) (VAR) (VAR) [CMD=LOGIC_XNOR]",
    "        XOR (VAR) (VAR) (VAR) [CMD=LOGIC_XOR]",
    "",
    "        # PRINT",
    "        PRINT (1,0) (VAR,TXT) [CMD=PRINT_CMD]",
    "",
    "        # INPUT",
    "        INPUT (VAR) [CMD=INPUT_CMD]",
    "",
    "        # PYTHON",
    "        PYTHON (TXT) [CMD=PYTHON_CMD]",
    "",
    "        # CONTROL FLOW",
    "        JUMP (VAR,VAL) [CMD=JUMP_CMD]",
    "",
    "        # FILE SYSTEM",
    "        ET (TXT) [CMD=CD_CMD]",
    "        LI (BIN) (TXT) [CMD=LS_CMD]",
    "",
    "        # NETWORK (New commands)",
    "        # UPDATED: Added (VAR,TXT) for language_val as the 5th argument",
    "        #           The last two arguments shifted position.",
    "        # FCH (url) (raw_response_var) (client_agent) (format_val) (language_val) (decode_type) (decoded_output_var)",
    "        FCH (VAR,TXT) (VAR) (VAR,TXT) (VAR,TXT) (VAR,TXT) (TXT) (VAR) [CMD=NETWORK_FETCH]",
    "        FETCH (VAR,TXT) (VAR) (VAR,TXT) (VAR,TXT) (VAR,TXT) (TXT) (VAR) [CMD=NETWORK_FETCH] # Alias for FCH",
    "",
    "        END",
    "        " >>

WordChars == LowerChars \o UpperChars \o DigitChars \o "_"
is_word_char(c) == IndexOf(c, WordChars, 1) > 0

all_word(s) == \A j \in 1..Len(s) : is_word_char(Ch(s, j))

\* length of the longest prefix of s made of \w characters
word_len(s) ==
    IF all_word(s) THEN Len(s)
    ELSE Least({j \in 1..Len(s) : ~is_word_char(Ch(s, j))}) - 1

\* the last position of character c in s, 0 when there is none
last_index_of(c, s) ==
    IF \A j \in 1..Len(s) : Ch(s, j) # c THEN 0
    ELSE Greatest({j \in 1..Len(s) : Ch(s, j) = c})

\* count_groups resumed from the opening parenthesis found at 'open' and the
\* first ')' after it
RECURSIVE count_groups(_, _)
count_from(pattern, open, close) ==
    IF open = 0 \/ close = 0 THEN 0
    ELSE IF close = open + 1 THEN count_groups(pattern, open + 1)
    ELSE 1 + count_groups(pattern, close + 1)

\* ')' is looked for only after an opening parenthesis was found
close_after(pattern, open) == IF open = 0 THEN 0 ELSE IndexOf(")", pattern, open + 1)

\* len(re.findall(r'\(([^)]+)\)', pattern)): scanning from the left, an
\* opening parenthesis followed by at least one character other than ')' and
\* then ')' is one match; the scan resumes after the match.
count_groups(pattern, i) ==
    count_from(pattern, IndexOf("(", pattern, i),
               close_after(pattern, IndexOf("(", pattern, i)))

\* re.match(r'^(\w+)\s+(.+?)(?:\s*\[CMD=(\w+)\])?$', line) on a stripped,
\* comment-free clause.  handler = "" stands for None.
\*   w: length of group 1; after: the text behind it; rest: that text without
\*   its leading blanks; lb: position of the last '[' in rest; tag: the word
\*   between '[CMD=' and the closing ']'; tagged: the optional group matched.
clause_tag(rest, lb) == IF lb = 0 THEN "" ELSE substr(rest, lb + 5, Len(rest) - 1)

is_tagged(rest, lb, tag) ==
    /\ lb > 1
    /\ substr(rest, lb, lb + 4) = "[CMD="
    /\ endswith(rest, "]")
    /\ tag # ""
    /\ all_word(tag)

match_result(line, w, after, rest, tagged, tag, pattern) ==
    [matched |-> w > 0 /\ Len(after) > Len(rest) /\ rest # "",
     cmd |-> upper(SubSeq(line, 1, w)),
     pattern |-> pattern,
     handler |-> IF tagged THEN tag ELSE "",
     arg_count |-> count_groups(pattern, 1)]

match_tail(line, w, after, rest, lb, tag, tagged) ==
    match_result(line, w, after, rest, tagged, tag,
                 IF tagged THEN strip(SubSeq(rest, 1, lb - 1)) ELSE strip(rest))

match_tag(line, w, after, rest, lb, tag) ==
    match_tail(line, w, after, rest, lb, tag, is_tagged(rest, lb, tag))

match_rest(line, w, after, rest, lb) ==
    match_tag(line, w, after, rest, lb, clause_tag(rest, lb))

match_after(line, w, after, rest) ==
    match_rest(line, w, after, rest, last_index_of("[", rest))

match_word(line, w, after) == match_after(line, w, after, lstrip(after))

match_prefix(line, w) == match_word(line, w, SubSeq(line, w + 1, Len(line)))

match_clause(line) == match_prefix(line, word_len(line))

\* lines 114-117: the clause without its '#' comment
clean(text) == strip(split1(text, "#")[1])

\* the indices of the (stripped) lines that start with the prefix
starting(text, prefix) ==
    {i \in 1..Len(text) : substr(text[i], 1, Len(prefix)) = prefix}

commands_entry(m) ==
    [pattern |-> m.pattern, handler |-> m.handler, arg_count |-> m.arg_count]

\* commands[cmd] = {...}: a later clause of the same name replaces an earlier
\* one.  m maps the index of each candidate line to its match.
store_clauses(m, matched) ==
    [c \in {m[i].cmd : i \in matched} |->
        commands_entry(m[Greatest({i \in matched : m[i].cmd = c})])]

match_rows(text, rows) == [i \in rows |-> match_clause(clean(text[i]))]

matched_rows(m) == store_clauses(m, {i \in DOMAIN m : m[i].matched})

\* The loop over the lines of the grammar text: lines before the first
\* 'main.spid<' line are skipped, the first line that starts with 'END' ends
\* the loop, blank and comment-only lines are skipped, a '#' comment is cut
\* off, and each clause that matches is stored under its name.
parse_span(text, opens, ends) ==
    IF opens = {} THEN matched_rows(match_rows(text, {}))
    ELSE matched_rows(match_rows(text,
            {i \in (Least(opens) + 1)..((IF ends = {} THEN Len(text) + 1
                                         ELSE Least(ends)) - 1) :
                i \notin opens /\ clean(text[i]) # ""}))

parse_stripped(text) ==
    parse_span(text, starting(text, "main.spid<"), starting(text, "END"))

parse_lines(lines) == parse_stripped([i \in 1..Len(lines) |-> strip(lines[i])])

parse_SPiD_definition == parse_lines(SPiD_definition)

\* the keys of self.handlers
handlers == {"CMP", "LOGIC_AND", "LOGIC_OR", "LOGIC_NOR", "LOGIC_XNOR",
             "LOGIC_XOR", "ARITH_ADD", "ARITH_SUB", "ARITH_MULT", "ARITH_DIV",
             "PRINT_CMD", "BOOL_SET", "PYTHON_CMD", "JUMP_CMD", "INPUT_CMD",
             "CD_CMD", "LS_CMD", "NETWORK_FETCH"}

(***************************************************************************)
(* Interpreter state                                                       *)
(***************************************************************************)
VARIABLES
    commands,          \* self.commands, built once by the constructor
    script_none,       \* self.script_lines is None
    script_lines,      \* self.script_lines (the empty list when it is None)
    variables,         \* self.variables
    program_counter,   \* self.program_counter
    loc,               \* where run() is: "start", "loop", "shell", "returned", "raised"
    line,              \* the local 'line' of run(): the line last handed to execute_line
    original_program_counter,  \* the local of the script loop
    events,            \* what the last executed line reported, printed and called
    propagated         \* the exception that left run(), "" when none

vars == <<commands, script_none, script_lines, variables, program_counter, loc, line,
          original_program_counter, events, propagated>>

(***************************************************************************)
(* One line's execution threads a record through the handlers:             *)
(*   variables, program_counter: the interpreter fields;                   *)
(*   events: the observable trace of the line (reports, prints, handler    *)
(*           calls, nested line executions);                               *)
(*   raised: the exception in flight, "" when none;                        *)
(*   depth: the nesting depth of execute_line;                             *)
(*   stdin: what input() delivers to this line, [kind, text].              *)
(***************************************************************************)
Ev(kind, tag, n, v) == [kind |-> kind, tag |-> tag, n |-> n, v |-> v]

report(st, msg) == [st EXCEPT !.events = Append(@, Ev("report", msg, 0, Str("")))]
printed(st, v) == [st EXCEPT !.events = Append(@, Ev("print", "", 0, v))]
raise(st, exc) == [st EXCEPT !.raised = exc]
assign(st, out, val) == [st EXCEPT !.variables = store_set(@, out, val)]

RECURSIVE execute_line(_, _)

\* the if/elif/else chain of handle_cmp: "met" when a branch of the chain set
\* condition_met = True, "invalid" when the chain fell to its final else
cmp_chain(condition, val1, val2) ==
    IF condition = "HIGH" /\ num_gt(val1, val2) THEN "met"
    ELSE IF condition = "LOW" /\ num_lt(val1, val2) THEN "met"
    ELSE IF condition = "EQUAL" /\ num_eq(val1, val2) THEN "met"
    ELSE "invalid"

\* a branch whose sub-script cannot move the program counter
cmp_branch_restore(chain, condition_met, branch, script, st) ==
    IF chain = "invalid"
    THEN report(st, "Invalid condition")
    ELSE IF \/ branch = "THEN" /\ condition_met
            \/ branch = "ELSE" /\ ~condition_met
    THEN [execute_line(script.s, st) EXCEPT !.program_counter = st.program_counter]
    ELSE st

\* lines 297-302: after the chain
cmp_branch(chain, condition_met, branch, script, st) ==
    IF chain = "invalid"
    THEN report(st, "Invalid condition")
    ELSE IF \/ branch = "THEN" /\ condition_met
            \/ branch = "ELSE" /\ ~condition_met
    THEN execute_line(script.s, st)
    ELSE st

cmp_met(chain, branch, script, st) ==
    cmp_branch(chain, chain = "met", branch, script, st)

\* lines 287-302: f1, f2 are the outcomes of float(val1), float(val2)
cmp_floats(f1, f2, condition, branch, script, st) ==
    IF ~f1.ok \/ ~f2.ok
    THEN report(st, "IF command requires numeric values")
    ELSE IF ~IsStr(condition) \/ ~IsStr(branch)
    THEN raise(st, "AttributeError")      \* .upper() of a float
    ELSE cmp_met(cmp_chain(upper(condition.s), f1.v, f2.v), upper(branch.s), script, st)

handle_cmp(val1, val2, condition, branch, script, st) ==
    cmp_floats(to_float(val1), to_float(val2), condition, branch, script, st)

\* a gate table in which XOR is computed as OR
gate_result_xor_as_or(val1, val2, gate_type) ==
    CASE gate_type = "AND" -> val1 /\ val2
      [] gate_type = "OR" -> val1 \/ val2
      [] gate_type = "NOR" -> ~(val1 \/ val2)
      [] gate_type = "XNOR" -> val1 = val2
      [] gate_type = "XOR" -> val1 \/ val2
      [] OTHER -> FALSE

\* lines 311-323: the gate applied to the two truth values
gate_result(val1, val2, gate_type) ==
    CASE gate_type = "AND" -> val1 /\ val2
      [] gate_type = "OR" -> val1 \/ val2
      [] gate_type = "NOR" -> ~(val1 \/ val2)
      [] gate_type = "XNOR" -> val1 = val2
      [] gate_type = "XOR" -> val1 # val2
      [] OTHER -> FALSE

\* a gate that treats an input that does not convert as 0 and still writes
gate_floats_default_low(f1, f2, out, gate_type, st) ==
    IF ~f1.ok \/ ~f2.ok
    THEN report(assign(st, out, Num(0, 1)), "Logic gates require numeric values (0 or 1)")
    ELSE IF gate_type \notin {"AND", "OR", "NOR", "XNOR", "XOR"}
    THEN report(st, "Unknown gate type")
    ELSE assign(st, out,
                Num(IF gate_result(f1.v.n # 0, f2.v.n # 0, gate_type) THEN 1 ELSE 0, 1))

\* lines 311-326: f1, f2 are the outcomes of float(in1), float(in2)
gate_floats(f1, f2, out, gate_type, st) ==
    IF ~f1.ok \/ ~f2.ok
    THEN report(st, "Logic gates require numeric values (0 or 1)")
    ELSE IF gate_type \notin {"AND", "OR", "NOR", "XNOR", "XOR"}
    THEN report(st, "Unknown gate type")
    ELSE assign(st, out,
                Num(IF gate_result(f1.v.n # 0, f2.v.n # 0, gate_type) THEN 1 ELSE 0, 1))

handle_logic_gate(in1, in2, out, gate_type, st) ==
    gate_floats(to_float(in1), to_float(in2), out, gate_type, st)

handle_logic_and(in1, in2, out, st) == handle_logic_gate(in1, in2, out, "AND", st)
handle_logic_or(in1, in2, out, st) == handle_logic_gate(in1, in2, out, "OR", st)
handle_logic_nor(in1, in2, out, st) == handle_logic_gate(in1, in2, out, "NOR", st)
handle_logic_xnor(in1, in2, out, st) == handle_logic_gate(in1, in2, out, "XNOR", st)
handle_logic_xor(in1, in2, out, st) == handle_logic_gate(in1, in2, out, "XOR", st)

num_add(a, b) == Num(a.n * b.d + b.n * a.d, a.d * b.d)
num_sub(a, b) == Num(a.n * b.d - b.n * a.d, a.d * b.d)
num_mul(a, b) == Num(a.n * b.n, a.d * b.d)
num_div(a, b) == Num(a.n * b.d, a.d * b.n)

\* handle_arith with the division-by-zero exit storing a zero result
arith_floats_zero_result(fa, fb, out, op, st) ==
    IF ~fa.ok \/ ~fb.ok
    THEN report(st, "Arithmetic operations require numeric values")
    ELSE IF op = "ADD" THEN assign(st, out, num_add(fa.v, fb.v))
    ELSE IF op = "SUB" THEN assign(st, out, num_sub(fa.v, fb.v))
    ELSE IF op = "MULT" THEN assign(st, out, num_mul(fa.v, fb.v))
    ELSE IF op = "DIV"
    THEN IF fb.v.n = 0
         THEN report(assign(st, out, Num(0, 1)), "Division by zero")
         ELSE assign(st, out, num_div(fa.v, fb.v))
    ELSE report(st, "Unknown operation")

\* lines 347-366: fa, fb are the outcomes of float(a), float(b)
arith_floats(fa, fb, out, op, st) ==
    IF ~fa.ok \/ ~fb.ok
    THEN report(st, "Arithmetic operations require numeric values")
    ELSE IF op = "ADD" THEN assign(st, out, num_add(fa.v, fb.v))
    ELSE IF op = "SUB" THEN assign(st, out, num_sub(fa.v, fb.v))
    ELSE IF op = "MULT" THEN assign(st, out, num_mul(fa.v, fb.v))
    ELSE IF op = "DIV"
    THEN IF fb.v.n = 0
         THEN report(st, "Division by zero")
         ELSE assign(st, out, num_div(fa.v, fb.v))
    ELSE report(st, "Unknown operation")

handle_arith(a, b, out, op, st) == arith_floats(to_float(a), to_float(b), out, op, st)

handle_arith_add(a, b, out, st) == handle_arith(a, b, out, "ADD", st)
handle_arith_sub(a, b, out, st) == handle_arith(a, b, out, "SUB", st)
handle_arith_mult(a, b, out, st) == handle_arith(a, b, out, "MULT", st)
handle_arith_div(a, b, out, st) == handle_arith(a, b, out, "DIV", st)

\* lines 385-398: fi is the outcome of int(flag)
print_flag(fi, content_raw, st) ==
    IF ~fi.ok THEN report(st, "Print error")
    ELSE IF fi.i = 0
    THEN IF content_raw \in DOMAIN st.variables
         THEN printed(st, st.variables[content_raw])
         ELSE report(st, "Undefined variable")
    ELSE IF fi.i = 1
    THEN printed(st, IF /\ IsStr(content_raw)
                        /\ startswith(content_raw.s, "\"")
                        /\ endswith(content_raw.s, "\"")
                     THEN Str(SubSeq(content_raw.s, 2, Len(content_raw.s) - 1))
                     ELSE content_raw)
    ELSE report(st, "Invalid PRINT flag")

handle_print(flag, content_raw, st) == print_flag(to_int(flag), content_raw, st)

\* a BOOL handler that also moves the program counter on
bool_float_skip(f, var, st) ==
    IF ~f.ok THEN report(st, "Invalid BOOL value")
    ELSE IF f.v = Num(0, 1) \/ f.v = Num(1, 1)
    THEN [assign(st, var, f.v) EXCEPT !.program_counter = @ + 1]
    ELSE report(st, "Invalid BOOL value")

\* lines 406-409: f is the outcome of float(value)
bool_float(f, var, st) ==
    IF ~f.ok THEN report(st, "Invalid BOOL value")
    ELSE IF f.v = Num(0, 1) \/ f.v = Num(1, 1)
    THEN assign(st, var, f.v)
    ELSE report(st, "Invalid BOOL value")

handle_bool_set(value, var, st) == bool_float(to_float(value), var, st)

\* exec(code, env): the code fragments of the model's lines have no effect on
\* the store (the fragment is 'pass'); the execution is recorded only.
handle_python(code, st) ==
    [st EXCEPT !.events = Append(@, Ev("exec", "python", 0, code))]

\* self.program_counter = index
set_counter(st, index) ==
    [st EXCEPT !.program_counter = index,
               !.events = Append(@, Ev("assign", "program_counter", index, Str("")))]

\* handle_jump without the bounds test on the target index
handle_jump_unchecked(target_line, st) ==
    LET target_line_int == to_int(target_line)
        jump_to_index == target_line_int.i - 1
    IN  IF ~target_line_int.ok
        THEN report(st, "JUMP error: Invalid line number")
        ELSE IF script_none
        THEN report(st, "JUMP command is only valid when running a script from a file.")
        ELSE set_counter(st, jump_to_index)

\* handle_jump sending an out-of-bounds target to the first line
handle_jump_wrap(target_line, st) ==
    LET target_line_int == to_int(target_line)
        jump_to_index == target_line_int.i - 1
    IN  IF ~target_line_int.ok
        THEN report(st, "JUMP error: Invalid line number")
        ELSE IF script_none
        THEN report(st, "JUMP command is only valid when running a script from a file.")
        ELSE IF 0 <= jump_to_index /\ jump_to_index < Len(script_lines)
        THEN set_counter(st, jump_to_index)
        ELSE set_counter(st, 0)

handle_jump(target_line, st) ==
    LET target_line_int == to_int(target_line)
        jump_to_index == target_line_int.i - 1
    IN  IF ~target_line_int.ok
        THEN report(st, "JUMP error: Invalid line number")
        ELSE IF script_none
        THEN report(st, "JUMP command is only valid when running a script from a file.")
        ELSE IF 0 <= jump_to_index /\ jump_to_index < Len(script_lines)
        THEN set_counter(st, jump_to_index)
        ELSE report(st, "JUMP error: Target line is out of bounds.")

\* lines 458-462: f is the outcome of float(user_input)
input_float(f, user_input, var_name, st) ==
    printed(assign(st, var_name, IF f.ok THEN f.v ELSE Str(user_input)),
            Str(user_input))

handle_input(var_name, st) ==
    IF st.stdin.kind = "eof" THEN raise(st, "EOFError")
    ELSE IF st.stdin.kind = "interrupt" THEN raise(st, "KeyboardInterrupt")
    ELSE input_float(float_of_text(st.stdin.text), st.stdin.text, var_name, st)

\* os.chdir and os.listdir act on the file system, which is outside the
\* interpreter state: the handlers leave the store and the counter alone.
handle_cd(directory_path, st) ==
    [st EXCEPT !.events = Append(@, Ev("fs", "chdir", 0, directory_path))]

handle_ls(flag, directory_path, st) ==
    IF ~to_int(flag).ok THEN report(st, "LI error: Invalid flag")
    ELSE [st EXCEPT !.events = Append(@, Ev("fs", "listdir", 0, directory_path))]

\* lines 524-527: the stores made when the library is missing
fetch_missing(raw_response_var, decoded_output_var, st) ==
    IF decoded_output_var # Str("NULL")
    THEN assign(assign(st, raw_response_var, Str("ERROR: requests lib missing")),
                decoded_output_var, Str("ERROR: requests lib missing"))
    ELSE assign(st, raw_response_var, Str("ERROR: requests lib missing"))

\* The host of the model has no 'requests' library (the import at the top of
\* the file failed): the handler takes its first exit.
handle_network_fetch(url, raw_response_var, client_agent_val, format_val, language_val, decode_type_val, decoded_output_var, st) ==
    fetch_missing(raw_response_var, decoded_output_var,
                  report(st, "NETWORK_FETCH error: 'requests' library is not installed."))

(***************************************************************************)
(* Dispatcher: argument shaping, arity check, handler call                 *)
(***************************************************************************)
RECURSIVE parse_all(_, _)
parse_all(tokens, store) ==
    IF Len(tokens) = 0 THEN <<>>
    ELSE <<parse_value(tokens[1], store)>> \o parse_all(Tail(tokens), store)

shaped_ok(args) == [raised |-> "", args |-> args, warned |-> FALSE]
shaped_fail(exc) == [raised |-> exc, args |-> <<>>, warned |-> FALSE]

\* lines 218-227: flag is self.parse_value(raw_args[0]), flag_int the outcome
\* of int(flag); a lone flag passes with the warning and an empty content
shape_print(raw_args, flag, flag_int) ==
    IF Len(raw_args) > 1
    THEN IF ~flag_int.ok THEN shaped_fail("ValueError")
         ELSE IF flag_int.i = 0
         THEN shaped_ok(<<flag, Str(raw_args[2])>>)
         ELSE shaped_ok(<<flag, Str(join(slice_from(raw_args, 1)))>>)
    ELSE [raised |-> "", args |-> <<flag, Str("")>>, warned |-> TRUE]

\* Lines 216-266 of execute_line: the shaped argument list of one command,
\* or the exception an out-of-range raw_args[i] or a failing int() raises
\* there (this code is outside the try block of the handler call).
\* parsed[i] is self.parse_value(raw_args[i]).
\* warned: the PRINT-without-content warning was printed.
shape_parsed(cmd, raw_args, arg_count, parsed) ==
    IF cmd = "PRINT"
    THEN IF Len(raw_args) = 0 THEN shaped_fail("IndexError")
         ELSE shape_print(raw_args, parsed[1], to_int(parsed[1]))
    ELSE IF cmd = "IF"
    THEN IF Len(raw_args) < arg_count - 1 THEN shaped_fail("IndexError")
         ELSE shaped_ok(SubSeq(parsed, 1, arg_count - 1)
                        \o <<Str(join(slice_from(raw_args, arg_count - 1)))>>)
    ELSE IF cmd = "PYTHON" THEN shaped_ok(<<Str(join(raw_args))>>)
    ELSE IF cmd = "INPUT"
    THEN IF Len(raw_args) = 0 THEN shaped_fail("IndexError")
         ELSE shaped_ok(<<Str(raw_args[1])>>)
    ELSE IF cmd = "ET" THEN shaped_ok(<<Str(join(raw_args))>>)
    ELSE IF cmd = "LI"
    THEN IF Len(raw_args) = 0 THEN shaped_fail("IndexError")
         ELSE IF Len(raw_args) > 1
         THEN shaped_ok(<<parsed[1], Str(join(slice_from(raw_args, 1)))>>)
         ELSE shaped_ok(<<parsed[1], Str("")>>)
    ELSE IF cmd = "FCH" \/ cmd = "FETCH"
    THEN IF Len(raw_args) < 7 THEN shaped_fail("IndexError")
         ELSE shaped_ok(<<parsed[1], Str(raw_args[2]), parsed[3], parsed[4],
                          parsed[5], parsed[6], Str(raw_args[7])>>)
    ELSE shaped_ok(parsed)

shape_args(cmd, raw_args, arg_count, store) ==
    shape_parsed(cmd, raw_args, arg_count, parse_all(raw_args, store))

\* the number of positional arguments each handler accepts
handler_arity(handler_name) ==
    CASE handler_name = "CMP" -> {5}
      [] handler_name \in {"LOGIC_AND", "LOGIC_OR", "LOGIC_NOR", "LOGIC_XNOR",
                           "LOGIC_XOR", "ARITH_ADD", "ARITH_SUB", "ARITH_MULT",
                           "ARITH_DIV"} -> {3}
      [] handler_name \in {"PRINT_CMD", "BOOL_SET"} -> {2}
      [] handler_name \in {"PYTHON_CMD", "JUMP_CMD", "INPUT_CMD", "CD_CMD"} -> {1}
      [] handler_name = "LS_CMD" -> {1, 2}
      [] handler_name = "NETWORK_FETCH" -> {7}

\* self.handlers[handler_name](*parsed_args) with the call entered in the trace
apply_handler(handler_name, a, s0) ==
    CASE handler_name = "CMP" -> handle_cmp(a[1], a[2], a[3], a[4], a[5], s0)
      [] handler_name = "LOGIC_AND" -> handle_logic_and(a[1], a[2], a[3], s0)
      [] handler_name = "LOGIC_OR" -> handle_logic_or(a[1], a[2], a[3], s0)
      [] handler_name = "LOGIC_NOR" -> handle_logic_nor(a[1], a[2], a[3], s0)
      [] handler_name = "LOGIC_XNOR" -> handle_logic_xnor(a[1], a[2], a[3], s0)
      [] handler_name = "LOGIC_XOR" -> handle_logic_xor(a[1], a[2], a[3], s0)
      [] handler_name = "ARITH_ADD" -> handle_arith_add(a[1], a[2], a[3], s0)
      [] handler_name = "ARITH_SUB" -> handle_arith_sub(a[1], a[2], a[3], s0)
      [] handler_name = "ARITH_MULT" -> handle_arith_mult(a[1], a[2], a[3], s0)
      [] handler_name = "ARITH_DIV" -> handle_arith_div(a[1], a[2], a[3], s0)
      [] handler_name = "PRINT_CMD" -> handle_print(a[1], a[2], s0)
      [] handler_name = "BOOL_SET" -> handle_bool_set(a[1], a[2], s0)
      [] handler_name = "PYTHON_CMD" -> handle_python(a[1], s0)
      [] handler_name = "JUMP_CMD" -> handle_jump(a[1], s0)
      [] handler_name = "INPUT_CMD" -> handle_input(a[1], s0)
      [] handler_name = "CD_CMD" -> handle_cd(a[1], s0)
      [] handler_name = "LS_CMD" ->
           handle_ls(a[1], IF Len(a) > 1 THEN a[2] ELSE Str(""), s0)
      [] handler_name = "NETWORK_FETCH" ->
           handle_network_fetch(a[1], a[2], a[3], a[4], a[5], a[6], a[7], s0)

\* self.handlers[handler_name](*parsed_args): Python raises TypeError when
\* the argument count does not fit the handler's parameters.
call_handler(cmd, handler_name, a, st) ==
    IF Len(a) \notin handler_arity(handler_name)
    THEN raise([st EXCEPT !.events =
                   Append(@, Ev("call", cmd, Len(a), Str(handler_name)))],
               "TypeError")
    ELSE apply_handler(handler_name, a,
             [st EXCEPT !.events =
                 Append(@, Ev("call", cmd, Len(a), Str(handler_name)))])

\* lines 274-277: TypeError and every other Exception are caught and
\* reported; KeyboardInterrupt is not an Exception and passes through.
except(r) ==
    IF r.raised = "" \/ r.raised = "KeyboardInterrupt" THEN r
    ELSE IF r.raised = "TypeError"
    THEN report([r EXCEPT !.raised = ""], "Argument error")
    ELSE report([r EXCEPT !.raised = ""], "Error executing")

\* dispatch without the comparison of len(parsed_args) with arg_count
dispatch_unchecked(cmd, handler_name, arg_count, parsed_args, st) ==
    except(call_handler(cmd, handler_name, parsed_args, st))

\* Lines 268-277: the arity check and the handler call inside try/except.
dispatch(cmd, handler_name, arg_count, parsed_args, st) ==
    IF Len(parsed_args) # arg_count
    THEN report(st, "Argument error: wrong argument count")
    ELSE except(call_handler(cmd, handler_name, parsed_args, st))

\* a declaration that adds to a number already bound under the name
declare_accumulate(decl, st) ==
    IF Len(decl) # 2
    THEN report(st, "Invalid variable declaration")
    ELSE IF /\ Str(strip(decl[1])) \in DOMAIN st.variables
            /\ IsNum(st.variables[Str(strip(decl[1]))])
            /\ IsNum(parse_value(strip(decl[2]), st.variables))
    THEN assign(st, Str(strip(decl[1])),
                num_add(st.variables[Str(strip(decl[1]))],
                        parse_value(strip(decl[2]), st.variables)))
    ELSE assign(st, Str(strip(decl[1])), parse_value(strip(decl[2]), st.variables))

\* lines 187-195: decl is clean_line[1:-1].split('=', 1)
declare(decl, st) ==
    IF Len(decl) = 2
    THEN assign(st, Str(strip(decl[1])), parse_value(strip(decl[2]), st.variables))
    ELSE report(st, "Invalid variable declaration")

\* lines 182-195: clean_line is the line without its '#' comment
declare_clean(clean_line, st) ==
    IF ~endswith(clean_line, ">")
    THEN report(st, "Invalid variable declaration format")
    ELSE declare(split1(SubSeq(clean_line, 2, Len(clean_line) - 1), "="), st)

\* Lines 180-195: a line bracketed by < and >
execute_declaration(text, st) == declare_clean(strip(split1(text, "#")[1]), st)

\* lines 216-277: shaped is the outcome of the argument shaping
execute_shaped(cmd, handler_name, arg_count, shaped, st) ==
    IF shaped.raised # "" THEN raise(st, shaped.raised)
    ELSE dispatch(cmd, handler_name, arg_count, shaped.args,
                  IF shaped.warned
                  THEN [st EXCEPT !.events =
                           Append(@, Ev("warn", "PRINT has no content", 0, Str("")))]
                  ELSE st)

\* lines 208-277: command_def is self.commands[cmd]
execute_defined(cmd, raw_args, command_def, st) ==
    IF command_def.handler = "" \/ command_def.handler \notin handlers
    THEN report(st, "No handler for command")
    ELSE execute_shaped(cmd, command_def.handler, command_def.arg_count,
                        shape_args(cmd, raw_args, command_def.arg_count, st.variables),
                        st)

\* a dispatcher that passes over an unregistered command in silence
execute_tokens_lenient(cmd, raw_args, st) ==
    IF cmd \notin DOMAIN commands THEN st
    ELSE execute_defined(cmd, raw_args, commands[cmd], st)

\* lines 201-277: cmd is tokens[0].upper(), raw_args is tokens[1:]
execute_tokens(cmd, raw_args, st) ==
    IF cmd \notin DOMAIN commands THEN report(st, "Unknown command")
    ELSE execute_defined(cmd, raw_args, commands[cmd], st)

\* lines 198-277: tokens is self.tokenize(line)
execute_tokenized(tokens, st) ==
    IF Len(tokens) = 0 THEN st
    ELSE execute_tokens(upper(tokens[1]), Tail(tokens), st)

\* Lines 197-277: a command line
execute_command(text, st) == execute_tokenized(tokenize(text), st)

\* the record one level deeper, with the line entered in the trace
enter(text, st) ==
    [st EXCEPT !.depth = @ + 1,
               !.events = Append(@, Ev("line", text, st.depth + 1, Str("")))]

\* lines 176-277 on the stripped line
execute_stripped(text, st) ==
    IF text = "" THEN st
    ELSE IF startswith(text, "<") /\ endswith(text, ">")
    THEN [execute_declaration(text, enter(text, st)) EXCEPT !.depth = st.depth]
    ELSE [execute_command(text, enter(text, st)) EXCEPT !.depth = st.depth]

execute_line(line0, st) == execute_stripped(strip(line0), st)

(***************************************************************************)
(* Inputs of the model                                                     *)
(***************************************************************************)
\* longest script the model loads
MaxScriptLen == 3

\* the lines scripts are made of
LinePool == {
    "<X = 1>",
    "ADD 2 3 X",
    "DIVS 4 0 X",
    "JUMP 1",
    "JUMP 2",
    "JUMP 3",
    "JUMP 999",
    "JUMP abc",
    "PRINT",
    "FOO 1 2" }

RECURSIVE ScriptsOfLen(_)
ScriptsOfLen(k) ==
    IF k = 0 THEN {<<>>}
    ELSE {Append(sc, l) : sc \in ScriptsOfLen(k - 1), l \in LinePool}

Scripts == UNION {ScriptsOfLen(k) : k \in 0..MaxScriptLen}

\* what input() can deliver: a line of text, end of input, or an interrupt
Stdin == {[kind |-> "text", text |-> "5"],
          [kind |-> "eof", text |-> ""],
          [kind |-> "interrupt", text |-> ""]}

\* the lines typed at the interactive prompt
ShellLines == {
    "whoami", "ls", "dir", "cd", "run", "EXIT", "exit",
    "<X = 1>", "<X>",
    "ADD 2 3 X", "SUB 8 3 X", "MULT 1 5 X", "DIVS 10 2 X",
    "DIVS 4 0 X", "ADD 1 2",
    "IF X 3 HIGH THEN PRINT 1 \"t\"", "IF X 3 HIGH ELSE PRINT 1 \"e\"",
    "IF X 3 LOW THEN PRINT 1 \"t\"", "IF X 3 LOW ELSE PRINT 1 \"e\"",
    "IF X 5 EQUAL THEN PRINT 1 \"t\"", "IF X 5 EQUAL ELSE PRINT 1 \"e\"",
    "JUMP 1", "JUMP abc",
    "PRINT", "PRINT 1", "IF 1 2", "INPUT", "LI", "FCH a b", "FOO 1 2",
    "INPUT X" }

\* a line reads standard input only through the INPUT command; for any other
\* line the outcome does not depend on what input() would deliver
reads_input(tokens) == \E k \in 1..Len(tokens) : upper(tokens[k]) = "INPUT"

stdin_for(text) ==
    IF reads_input(tokenize(text)) THEN Stdin ELSE {[kind |-> "eof", text |-> ""]}

(***************************************************************************)
(* Init: the interpreter after SPiDInterpreter(script_lines)               *)
(***************************************************************************)
Init ==
    /\ commands = parse_SPiD_definition
    /\ script_none \in BOOLEAN
    /\ script_lines \in (IF script_none THEN {<<>>} ELSE Scripts)
    /\ variables = EmptyStore
    /\ program_counter = 0
    /\ loc = "start"
    /\ line = ""
    /\ original_program_counter = 0
    /\ events = <<>>
    /\ propagated = ""

fresh(stdin) ==
    [variables |-> variables, program_counter |-> program_counter,
     events |-> <<>>, raised |-> "", depth |-> 0, stdin |-> stdin]

(***************************************************************************)
(* run()                                                                   *)
(***************************************************************************)
\* 'if self.script_lines:' a non-empty list starts the script loop
RunScript ==
    /\ loc = "start"
    /\ ~script_none /\ Len(script_lines) > 0
    /\ program_counter' = 0
    /\ loc' = "loop"
    /\ UNCHANGED <<commands, script_none, script_lines, variables, line,
                   original_program_counter, events, propagated>>

\* None or an empty list falls back to the interactive shell
RunShell ==
    /\ loc = "start"
    /\ script_none \/ Len(script_lines) = 0
    /\ loc' = "shell"
    /\ UNCHANGED <<commands, script_none, script_lines, variables, program_counter, line,
                   original_program_counter, events, propagated>>

\* the loop advancing without looking at what the line did to the counter
advance_always(before, after) == before + 1

\* the loop leaving the counter to the lines alone
advance_never(before, after) == after

\* the counter after one iteration of the script loop
advance(before, after) == IF after = before THEN before + 1 ELSE after

\* one iteration of 'while self.program_counter < len(self.script_lines)'
ScriptStep ==
    /\ loc = "loop"
    /\ program_counter < Len(script_lines)
    /\ \E stdin \in stdin_for(script_lines[program_counter + 1]) :
          \E r \in {execute_line(script_lines[program_counter + 1], fresh(stdin))} :
              /\ original_program_counter' = program_counter
              /\ line' = script_lines[program_counter + 1]
              /\ variables' = r.variables
              /\ events' = r.events
              /\ IF r.raised # ""
                 THEN /\ loc' = "raised"
                      /\ propagated' = r.raised
                      /\ program_counter' = r.program_counter
                 ELSE /\ loc' = loc
                      /\ propagated' = propagated
                      /\ program_counter' = advance(program_counter, r.program_counter)
    /\ UNCHANGED <<commands, script_none, script_lines>>

\* the loop condition fails: run() returns
ScriptHalt ==
    /\ loc = "loop"
    /\ program_counter >= Len(script_lines)
    /\ loc' = "returned"
    /\ UNCHANGED <<commands, script_none, script_lines, variables, program_counter, line,
                   original_program_counter, events, propagated>>

ShellBuiltins == {"whoami", "ls", "dir", "cd", "run"}

\* input() returns one of the words the shell answers itself
ShellBuiltin ==
    /\ loc = "shell"
    /\ \E text \in ShellLines :
          /\ lower(text) \in ShellBuiltins
          /\ line' = text
          /\ events' = <<Ev("print", "shell", 0, Str(lower(text)))>>
    /\ UNCHANGED <<commands, script_none, script_lines, variables, program_counter, loc,
                   original_program_counter, propagated>>

\* input() returns 'exit' in any letter case: break
ShellExit ==
    /\ loc = "shell"
    /\ \E text \in ShellLines :
          /\ lower(text) = "exit"
          /\ line' = text
    /\ loc' = "returned"
    /\ events' = <<>>
    /\ UNCHANGED <<commands, script_none, script_lines, variables, program_counter,
                   original_program_counter, propagated>>

\* any other line goes to execute_line; an Exception is caught and reported
\* by the loop, a KeyboardInterrupt breaks out of it
ShellExecuteFrom(lines) ==
    /\ loc = "shell"
    /\ \E text \in lines :
          /\ lower(text) \notin ShellBuiltins \cup {"exit"}
          /\ \E stdin \in stdin_for(text) :
                \E r \in {execute_line(text, fresh(stdin))} :
                    /\ line' = text
                    /\ variables' = r.variables
                    /\ program_counter' = r.program_counter
                    /\ events' = IF r.raised = "" THEN r.events
                                 ELSE IF r.raised = "KeyboardInterrupt"
                                 THEN Append(r.events, Ev("print", "shell", 0, Str("Exiting...")))
                                 ELSE Append(r.events, Ev("report", "Error", 0, Str(r.raised)))
                    /\ loc' = IF r.raised = "KeyboardInterrupt" THEN "returned" ELSE "shell"
    /\ UNCHANGED <<commands, script_none, script_lines, original_program_counter, propagated>>

ShellExecute == ShellExecuteFrom(ShellLines)

\* input() raises EOFError at end of input: 'except Exception' reports it
\* and the loop goes round again
ShellEOF ==
    /\ loc = "shell"
    /\ events' = <<Ev("report", "Error", 0, Str("EOFError"))>>
    /\ UNCHANGED <<commands, script_none, script_lines, variables, program_counter, loc,
                   line, original_program_counter, propagated>>

\* input() is interrupted: 'except KeyboardInterrupt' breaks
ShellInterrupt ==
    /\ loc = "shell"
    /\ events' = <<Ev("print", "shell", 0, Str("Exiting..."))>>
    /\ loc' = "returned"
    /\ UNCHANGED <<commands, script_none, script_lines, variables, program_counter,
                   line, original_program_counter, propagated>>

Next ==
    \/ RunScript
    \/ RunShell
    \/ ScriptStep
    \/ ScriptHalt
    \/ ShellBuiltin
    \/ ShellExit
    \/ ShellExecute
    \/ ShellEOF
    \/ ShellInterrupt

Spec == Init /\ [][Next]_vars

(***************************************************************************)
(* The interpreter started without a script, typed the logic-gate lines    *)
(***************************************************************************)
\* SPiDInterpreter() with script_lines=None
InitInteractive ==
    /\ commands = parse_SPiD_definition
    /\ script_none = TRUE
    /\ script_lines = <<>>
    /\ variables = EmptyStore
    /\ program_counter = 0
    /\ loc = "start"
    /\ line = ""
    /\ original_program_counter = 0
    /\ events = <<>>
    /\ propagated = ""

\* every gate on every pair of 0/1 inputs, the output named Y or Z
GateLines ==
    {g \o " " \o a \o " " \o b \o " " \o out :
        g \in {"AND", "OR", "NOR", "XNOR", "XOR"},
        a \in {"0", "1"}, b \in {"0", "1"}, out \in {"Y", "Z"}}

NextGates ==
    \/ RunShell
    \/ ShellExecuteFrom(GateLines)

SpecGates == InitInteractive /\ [][NextGates]_vars

(***************************************************************************)
(* The interpreter started without a script, typed declarations and IF     *)
(* lines                                                                   *)
(***************************************************************************)
\* declarations of ordinary names, of names that read as literals and of
\* names that are IF keywords; a malformed one; IF lines on literal operands
DeclarationLines == {
    "<X = 1>", "<X = 2>", "<X = X>", "<Y = X>",
    "<NULL = 1>", "<5 = 3>",
    "<HIGH = 1>", "<THEN = 0>",
    "<X>",
    "IF 5 3 HIGH THEN PRINT 1 \"t\"", "IF 5 3 LOW ELSE PRINT 1 \"e\"",
    "IF 5 3 LOW THEN PRINT 1 \"t\"" }

NextDeclarations ==
    \/ RunShell
    \/ ShellExecuteFrom(DeclarationLines)

SpecDeclarations == InitInteractive /\ [][NextDeclarations]_vars

(***************************************************************************)
(* Scripts and typed lines of the commands that bind, compute and fail on  *)
(* their operands                                                          *)
(***************************************************************************)
\* the lines these scripts are made of
CommandPool == {
    "<X = 5>", "BOOL 1 X", "AND 1 1 X", "ADD Q 3 X", "FOO 1 2", "JUMP 2" }

CommandScripts == UNION {[1..k -> CommandPool] : k \in 0..MaxScriptLen}

\* the lines typed at the prompt: operands that do not convert (an unbound
\* identifier, a text, NULL), the commands that do, unknown commands
CommandLines == {
    "ADD Q 3 X", "AND Q 1 X", "XOR \"a\" 1 X", "SUB NULL 3 X",
    "IF Q 3 HIGH THEN PRINT 1 \"t\"", "IF 3 NULL LOW ELSE PRINT 1 \"e\"",
    "<X = 5>", "BOOL 1 X", "AND 1 1 X", "ADD 2 3 X",
    "PRINT 1 \"t\"", "IF X 3 HIGH THEN PRINT 1 \"t\"",
    "FOO 1 2", "foo 1 2", "JUMP 1" }

InitCommands ==
    /\ commands = parse_SPiD_definition
    /\ script_none \in BOOLEAN
    /\ script_lines \in (IF script_none THEN {<<>>} ELSE CommandScripts)
    /\ variables = EmptyStore
    /\ program_counter = 0
    /\ loc = "start"
    /\ line = ""
    /\ original_program_counter = 0
    /\ events = <<>>
    /\ propagated = ""

NextCommands ==
    \/ RunScript
    \/ RunShell
    \/ ScriptStep
    \/ ScriptHalt
    \/ ShellExecuteFrom(CommandLines)

SpecCommands == InitCommands /\ [][NextCommands]_vars

(***************************************************************************)
(* Scripts and typed lines of PRINT and of IF with its branch sub-script   *)
(***************************************************************************)
\* the lines these scripts are made of: a declaration, PRINT with a good and
\* with a non-numeric flag, IF whose branch jumps, IF whose branch prints
ControlPool == {
    "<X = 7>", "PRINT abc x",
    "IF 5 3 HIGH THEN JUMP 1", "IF 5 3 HIGH THEN JUMP 3", "IF 3 5 HIGH THEN JUMP 1",
    "IF 5 3 HIGH THEN PRINT 1 \"t\"" }

ControlScripts == UNION {[1..k -> ControlPool] : k \in 0..MaxScriptLen}

\* the lines typed at the prompt: PRINT with every kind of flag, IF with
\* unknown keywords, IF nested in IF, sub-scripts written with the escape
\* character
ControlLines == {
    "<X = 7>", "PRINT 0 X", "PRINT 1 \"hello world\"", "PRINT 1 a b",
    "PRINT 2 x", "PRINT -1 x", "PRINT abc x",
    "IF 5 3 FOO THEN PRINT 1 \"t\"", "IF 5 3 HIGH MAYBE PRINT 1 \"t\"",
    "IF 5 3 HIGH THEN PRINT 1 \"t\"",
    "IF 1 0 HIGH THEN IF 1 0 HIGH THEN PRINT 1 x",
    "IF 1 0 HIGH THEN IF\\ 1\\ 0\\ HIGH\\ THEN\\ PRINT\\ 1\\ x" }

InitControl ==
    /\ commands = parse_SPiD_definition
    /\ script_none \in BOOLEAN
    /\ script_lines \in (IF script_none THEN {<<>>} ELSE ControlScripts)
    /\ variables = EmptyStore
    /\ program_counter = 0
    /\ loc = "start"
    /\ line = ""
    /\ original_program_counter = 0
    /\ events = <<>>
    /\ propagated = ""

NextControl ==
    \/ RunScript
    \/ RunShell
    \/ ScriptStep
    \/ ScriptHalt
    \/ ShellExecuteFrom(ControlLines)

SpecControl == InitControl /\ [][NextControl]_vars

(***************************************************************************)
(* tokenize applied to every short line over a letter, the space, the      *)
(* double quote and the escape character                                   *)
(***************************************************************************)
MaxLineLen == 5

RECURSIVE LinesOfLen(_)
LinesOfLen(k) ==
    IF k = 0 THEN {""}
    ELSE {l \o c : l \in LinesOfLen(k - 1), c \in {"a", " ", "\"", "\\"}}

TokenizerLines == UNION {LinesOfLen(k) : k \in 0..MaxLineLen}

InitTokenizer ==
    /\ commands = parse_SPiD_definition
    /\ script_none = TRUE
    /\ script_lines = <<>>
    /\ variables = EmptyStore
    /\ program_counter = 0
    /\ loc = "start"
    /\ line \in TokenizerLines
    /\ original_program_counter = 0
    /\ events = <<>>
    /\ propagated = ""

\* the returned list, one entry of the trace for each token, in order
token_events(tokens) == [i \in 1..Len(tokens) |-> Ev("token", tokens[i], i, Str(""))]

\* tokens = self.tokenize(line)
Tokenize ==
    /\ loc = "start"
    /\ events' = token_events(tokenize(line))
    /\ loc' = "returned"
    /\ UNCHANGED <<commands, script_none, script_lines, variables, program_counter, line,
                   original_program_counter, propagated>>

SpecTokenizer == InitTokenizer /\ [][Tokenize]_vars

(***************************************************************************)
(* Observations used by the properties                                     *)
(***************************************************************************)
\* run() drives a script (a non-empty list was supplied)
ScriptMode == ~script_none /\ Len(script_lines) > 0

\* the script loop has completed at least one iteration
Stepped == ScriptMode /\ loc \in {"loop", "returned"} /\ line # ""

\* this step is one iteration of the script loop / one executed shell line
ScriptIteration == loc = "loop" /\ loc' \in {"loop", "raised"}
ShellExecution ==
    /\ loc = "shell"
    /\ Len(events') > 0
    /\ events'[1].kind = "line"

EventsOf(evs, kind) == {i \in 1..Len(evs) : evs[i].kind = kind}
Reports(evs) == {evs[i].tag : i \in EventsOf(evs, "report")}

\* the tokens of the line last executed, and of the line this step executes
Tokens == tokenize(strip(line))
IsJumpLine(text) ==
    LET t == tokenize(strip(text)) IN Len(t) = 2 /\ upper(t[1]) = "JUMP"
\* the integer a JUMP line names, as the handler receives and converts it
JumpTarget(text, store) == to_int(parse_value(tokenize(strip(text))[2], store))

(***************************************************************************)
(* C1  Engine step rule.  After every completed iteration of the script    *)
(* loop on Script[before]: if the line left the counter equal to before    *)
(* (nothing assigned it, or the assignment wrote before itself) the        *)
(* counter is before + 1, otherwise it is the value the line wrote; and    *)
(* every iteration reads the line at the current counter.                  *)
(***************************************************************************)
C1_CounterAfterLine ==
    Stepped =>
        LET before == original_program_counter
            assigned == EventsOf(events, "assign")
            written == events[Greatest(assigned)].n
        IN  IF assigned = {} \/ written = before
            THEN program_counter = before + 1
            ELSE program_counter = written

C1_EngineStepRule ==
    /\ []C1_CounterAfterLine
    /\ [][ScriptIteration =>
            /\ original_program_counter' = program_counter
            /\ line' = script_lines[program_counter + 1]]_vars

\* a jump retargeted the counter and the engine kept it
C1_Witness ==
    /\ Stepped
    /\ loc = "loop"
    /\ EventsOf(events, "assign") # {}
    /\ program_counter # original_program_counter + 1
    /\ program_counter # original_program_counter

(***************************************************************************)
(* C2  Program-counter invariant.  In a script run 0 <= pc <= len(Script); *)
(* a line is read only at an index in [0, len(Script)); run() returns      *)
(* only with pc >= len(Script), and with pc >= len(Script) the only step   *)
(* of the loop is to return.                                               *)
(***************************************************************************)
C2_CounterRange ==
    ScriptMode =>
        /\ 0 <= program_counter
        /\ program_counter <= Len(script_lines)
        /\ line # "" =>
              /\ 0 <= original_program_counter
              /\ original_program_counter < Len(script_lines)
              /\ line = script_lines[original_program_counter + 1]
        /\ loc = "returned" => program_counter >= Len(script_lines)

C2_ProgramCounterInvariant ==
    /\ []C2_CounterRange
    /\ [][(ScriptMode /\ loc = "loop") =>
            /\ program_counter >= Len(script_lines) => loc' = "returned"
            /\ program_counter < Len(script_lines) => loc' # "returned"]_vars

\* a run that jumped at least once has halted at pc = len(Script)
C2_Witness ==
    /\ ScriptMode
    /\ loc = "returned"
    /\ program_counter = Len(script_lines)
    /\ \E i \in 1..Len(script_lines) : IsJumpLine(script_lines[i])
    /\ IsJumpLine(line)

(***************************************************************************)
(* C3  Successful jump (as claimed).  After an iteration that executed     *)
(* 'JUMP n' with 1 <= n <= len(Script), the counter is n - 1, whatever the *)
(* position of the JUMP line, its own position included.                   *)
(***************************************************************************)
C3_JumpReachesTarget ==
    (Stepped /\ IsJumpLine(line)) =>
        LET target == JumpTarget(line, variables)
        IN  (target.ok /\ 1 <= target.i /\ target.i <= Len(script_lines))
                => program_counter = target.i - 1

(***************************************************************************)
(* C4  Failed jump.  A JUMP whose argument is not an integer, or that runs *)
(* with no script loaded, or whose target is outside the script, reports   *)
(* an error, assigns neither the counter nor any variable; the script loop *)
(* then continues at before + 1, the shell loop with the counter as it was.*)
(***************************************************************************)
FailedJump(text, store) ==
    /\ IsJumpLine(text)
    /\ LET target == JumpTarget(text, store)
       IN  \/ ~target.ok
           \/ script_none
           \/ target.i - 1 < 0
           \/ target.i - 1 >= Len(script_lines)

C4_FailedJump ==
    [][((ScriptIteration \/ ShellExecution) /\ FailedJump(line', variables)) =>
            /\ Reports(events') # {}
            /\ EventsOf(events', "assign") = {}
            /\ variables' = variables
            /\ loc' = loc
            /\ program_counter' = IF loc = "loop" THEN program_counter + 1
                                  ELSE program_counter]_vars

\* 'JUMP 999' ran in a script of at most MaxScriptLen lines: the error was
\* reported and the loop moved to the next line
C4_Witness ==
    /\ Stepped
    /\ line = "JUMP 999"
    /\ Reports(events) = {"JUMP error: Target line is out of bounds."}
    /\ program_counter = original_program_counter + 1

(***************************************************************************)
(* Shapes of lines the properties speak about                              *)
(***************************************************************************)
\* this step executes a line (top level), in either loop
Execution == ScriptIteration \/ ShellExecution

IsArithLine(text) ==
    LET t == tokenize(strip(text))
    IN  Len(t) = 4 /\ upper(t[1]) \in {"ADD", "SUB", "MULT", "DIVS"}

\* both operands of an arithmetic or IF line are numbers in the given store
NumericOperands(text, store) ==
    LET t == tokenize(strip(text))
    IN  /\ to_float(parse_value(t[2], store)).ok
        /\ to_float(parse_value(t[3], store)).ok

Operand(text, store, k) == to_float(parse_value(tokenize(strip(text))[k + 1], store)).v

\* the result the arithmetic line is to store
ArithResult(text, store) ==
    LET op == upper(tokenize(strip(text))[1])
        a == Operand(text, store, 1)
        b == Operand(text, store, 2)
    IN  CASE op = "ADD" -> num_add(a, b)
          [] op = "SUB" -> num_sub(a, b)
          [] op = "MULT" -> num_mul(a, b)
          [] op = "DIVS" -> num_div(a, b)

IsIfLine(text) ==
    LET t == tokenize(strip(text))
    IN  /\ Len(t) >= 5
        /\ upper(t[1]) = "IF"
        /\ upper(t[4]) \in {"HIGH", "LOW", "EQUAL"}
        /\ upper(t[5]) \in {"THEN", "ELSE"}

Condition(text) == upper(tokenize(strip(text))[4])
Branch(text) == upper(tokenize(strip(text))[5])

\* val1 > val2, val1 < val2 or val1 == val2, by the condition keyword
ConditionMet(text, store) ==
    LET a == Operand(text, store, 1)
        b == Operand(text, store, 2)
    IN  CASE Condition(text) = "HIGH" -> num_gt(a, b)
          [] Condition(text) = "LOW" -> num_lt(a, b)
          [] Condition(text) = "EQUAL" -> num_eq(a, b)

\* the line's trace shows a nested execute_line: the sub-script ran
SubScriptRan(evs) == \E i \in EventsOf(evs, "line") : evs[i].n > 1

(***************************************************************************)
(* C5  Arithmetic write (as claimed).  Executing 'ADD a b X', 'SUB a b X', *)
(* 'MULT a b X' or 'DIVS a b X' (b nonzero) with numeric a and b leaves    *)
(* the name X bound to the result, whether or not X was bound before.      *)
(***************************************************************************)
C5_ArithmeticWrite ==
    [][(/\ Execution
        /\ IsArithLine(line')
        /\ NumericOperands(line', variables)
        /\ upper(tokenize(strip(line'))[1]) = "DIVS"
              => Operand(line', variables, 2).n # 0)
        => /\ Str(tokenize(strip(line'))[4]) \in DOMAIN variables'
           /\ variables'[Str(tokenize(strip(line'))[4])]
                 = ArithResult(line', variables)]_vars

(***************************************************************************)
(* C6  Branch execution condition (as claimed).  An IF line with numeric   *)
(* operands, a condition keyword HIGH/LOW/EQUAL and a branch keyword       *)
(* THEN/ELSE runs its sub-script iff (THEN and the condition is met) or    *)
(* (ELSE and the condition is not met).                                    *)
(***************************************************************************)
C6_BranchCondition ==
    [][(/\ Execution
        /\ IsIfLine(line')
        /\ NumericOperands(line', variables))
        => (SubScriptRan(events') <=>
               \/ Branch(line') = "THEN" /\ ConditionMet(line', variables)
               \/ Branch(line') = "ELSE" /\ ~ConditionMet(line', variables))]_vars

(***************************************************************************)
(* C7  Condition not met is not an error (as claimed).  An IF line with    *)
(* numeric operands, a valid condition whose comparison is false and the   *)
(* branch THEN runs no sub-script, prints nothing and reports no error.    *)
(***************************************************************************)
C7_NotMetIsSilent ==
    [][(/\ Execution
        /\ IsIfLine(line')
        /\ NumericOperands(line', variables)
        /\ Branch(line') = "THEN"
        /\ ~ConditionMet(line', variables))
        => /\ ~SubScriptRan(events')
           /\ EventsOf(events', "print") = {}
           /\ EventsOf(events', "report") = {}]_vars

(***************************************************************************)
(* C8  Syntax errors never abort the run (as claimed).  A script line that *)
(* is a malformed declaration, names an unknown command or gives a         *)
(* registered command the wrong number of arguments is reported, calls no  *)
(* handler, and the script loop goes on to the next line.                  *)
(***************************************************************************)
IsMalformedDeclaration(text) ==
    LET t == strip(text)
    IN  /\ startswith(t, "<") /\ endswith(t, ">")
        /\ \/ IndexOf("=", t, 1) = 0
           \/ IndexOf("#", t, 1) # 0

IsUnknownCommand(text) ==
    LET t == tokenize(strip(text))
    IN  /\ ~(startswith(strip(text), "<") /\ endswith(strip(text), ">"))
        /\ Len(t) > 0
        /\ upper(t[1]) \notin DOMAIN commands

\* fewer raw arguments than the command declares, or (for the commands whose
\* arguments are taken one token each) more
IsWrongArgumentCount(text) ==
    LET t == tokenize(strip(text))
        cmd == upper(t[1])
    IN  /\ ~(startswith(strip(text), "<") /\ endswith(strip(text), ">"))
        /\ Len(t) > 0
        /\ cmd \in DOMAIN commands
        /\ \/ Len(t) - 1 < commands[cmd].arg_count
           \/ /\ cmd \notin {"PRINT", "IF", "PYTHON", "ET", "LI", "INPUT", "FCH", "FETCH"}
              /\ Len(t) - 1 > commands[cmd].arg_count

IsSyntaxError(text) ==
    \/ IsMalformedDeclaration(text)
    \/ IsUnknownCommand(text)
    \/ IsWrongArgumentCount(text)

C8_SyntaxErrorsNeverAbort ==
    (ScriptMode /\ line # "" /\ IsSyntaxError(line)) =>
        /\ loc \in {"loop", "returned"}
        /\ EventsOf(events, "report") # {}
        /\ EventsOf(events, "call") = {}
        /\ program_counter = original_program_counter + 1

(***************************************************************************)
(* C9  Arity invariant.  Every handler call of every executed line, the    *)
(* calls made for nested branch sub-scripts included, receives exactly the *)
(* number of arguments its command declares.                               *)
(***************************************************************************)
C9_ArityInvariant ==
    \A i \in EventsOf(events, "call") :
        events[i].n = commands[events[i].tag].arg_count

\* a line called its handler and the branch sub-script called another one
C9_Witness ==
    /\ Cardinality(EventsOf(events, "call")) >= 2
    /\ \E i \in EventsOf(events, "line") : events[i].n = 2
    /\ loc = "shell"

(***************************************************************************)
(* C10  Division by zero.  'DIVS a b X' with numeric a and b equal to zero *)
(* reports a division by zero and leaves the store as it was (X unbound    *)
(* stays unbound, X bound keeps its value); the loop continues.            *)
(***************************************************************************)
IsDivisionByZero(text, store) ==
    /\ IsArithLine(text)
    /\ upper(tokenize(strip(text))[1]) = "DIVS"
    /\ NumericOperands(text, store)
    /\ Operand(text, store, 2).n = 0

C10_DivisionByZero ==
    [][(Execution /\ IsDivisionByZero(line', variables))
        => /\ "Division by zero" \in Reports(events')
           /\ variables' = variables
           /\ loc' = loc
           /\ loc = "loop" => program_counter' = program_counter + 1]_vars

\* 'DIVS 4 0 X' ran with X bound: X kept its value
C10_Witness ==
    /\ line = "DIVS 4 0 X"
    /\ "Division by zero" \in Reports(events)
    /\ Str("X") \in DOMAIN variables
    /\ variables[Str("X")] = Num(1, 1)

(***************************************************************************)
(* C11  Type errors do not mutate state.  An arithmetic, logic-gate or IF  *)
(* line with an operand that does not convert to a number (an unbound      *)
(* identifier, a text, NULL) reports the error, leaves the store and the   *)
(* counter as they were during the line, runs no sub-script, and the loop  *)
(* continues (the script loop at the next line).                           *)
(***************************************************************************)
IsGateLine(text) ==
    LET t == tokenize(strip(text))
    IN  Len(t) = 4 /\ upper(t[1]) \in {"AND", "OR", "NOR", "XNOR", "XOR"}

IsTypeError(text, store) ==
    /\ \/ IsArithLine(text)
       \/ IsGateLine(text)
       \/ IsIfLine(text) /\ Len(tokenize(strip(text))) >= 6
    /\ ~NumericOperands(text, store)

TypeErrorReports ==
    {"Arithmetic operations require numeric values",
     "Logic gates require numeric values (0 or 1)",
     "IF command requires numeric values"}

C11_TypeErrorsKeepState ==
    [][(Execution /\ IsTypeError(line', variables))
        => /\ Reports(events') \in {{m} : m \in TypeErrorReports}
           /\ variables' = variables
           /\ EventsOf(events', "assign") = {}
           /\ ~SubScriptRan(events')
           /\ loc' = loc
           /\ program_counter' = IF loc = "loop" THEN program_counter + 1
                                 ELSE program_counter]_vars

\* 'AND Q 1 X' ran with Q unbound and X bound: reported, X kept its value
C11_Witness ==
    /\ line = "AND Q 1 X"
    /\ Reports(events) = {"Logic gates require numeric values (0 or 1)"}
    /\ Str("Q") \notin DOMAIN variables
    /\ Str("X") \in DOMAIN variables
    /\ variables[Str("X")] = Num(5, 1)

(***************************************************************************)
(* C12  Logic gates.  For every gate G of AND, OR, NOR, XNOR, XOR and all  *)
(* inputs a, b in {0, 1}, executing 'G a b Y' with Y not bound before      *)
(* binds Y to 1.0 or 0.0 by G's truth table; the line reports nothing and  *)
(* binds nothing else.                                                     *)
(***************************************************************************)
\* the outputs for the inputs 00, 01, 10, 11
TruthTable ==
    [AND |-> <<0, 0, 0, 1>>, OR |-> <<0, 1, 1, 1>>, NOR |-> <<1, 0, 0, 0>>,
     XNOR |-> <<1, 0, 0, 1>>, XOR |-> <<0, 1, 1, 0>>]

Bit(token) == IF token = "1" THEN 1 ELSE 0

GateOutput(text) ==
    LET t == tokenize(strip(text))
    IN  TruthTable[upper(t[1])][2 * Bit(t[2]) + Bit(t[3]) + 1]

IsBinaryGateLine(text) ==
    /\ IsGateLine(text)
    /\ tokenize(strip(text))[2] \in {"0", "1"}
    /\ tokenize(strip(text))[3] \in {"0", "1"}

C12_LogicGates ==
    [][(/\ ShellExecution
        /\ IsBinaryGateLine(line')
        /\ Str(tokenize(strip(line'))[4]) \notin DOMAIN variables)
        => /\ variables' = store_set(variables, Str(tokenize(strip(line'))[4]),
                                     Num(GateOutput(line'), 1))
           /\ Reports(events') = {}]_vars

\* 'XOR 1 0 Y' was the first line typed: Y is 1.0 and nothing else is bound
C12_Witness ==
    /\ line = "XOR 1 0 Y"
    /\ DOMAIN variables = {Str("Y")}
    /\ variables[Str("Y")] = Num(1, 1)

(***************************************************************************)
(* C13  Counter ownership.  The program counter is changed only by a       *)
(* successful JUMP and by the script loop's advance: a line with no JUMP   *)
(* in it (declaration, arithmetic, logic gate, BOOL, PRINT, IF with its    *)
(* sub-script, any other) assigns the counter nowhere, so the shell leaves *)
(* it as it was and the script loop moves it on by exactly one; and any    *)
(* step that changes the counter is a script-loop iteration that either    *)
(* advanced by one or executed a JUMP line that did not fail.              *)
(***************************************************************************)
HasJump(text) ==
    \E k \in 1..Len(tokenize(strip(text))) : upper(tokenize(strip(text))[k]) = "JUMP"

C13_CounterOwnership ==
    [][/\ (Execution /\ ~HasJump(line')) =>
            /\ EventsOf(events', "assign") = {}
            /\ program_counter' = IF loc = "loop" /\ loc' = "loop"
                                  THEN program_counter + 1
                                  ELSE program_counter
       /\ program_counter' # program_counter =>
            /\ ScriptIteration
            /\ \/ program_counter' = program_counter + 1
               \/ IsJumpLine(line') /\ ~FailedJump(line', variables)]_vars

\* the script loop ran 'BOOL 1 X' as its second line: the line wrote the
\* store, not the counter, and the loop moved to the third
C13_Witness ==
    /\ Stepped
    /\ line = "BOOL 1 X"
    /\ original_program_counter = 1
    /\ program_counter = 2
    /\ EventsOf(events, "assign") = {}
    /\ variables # EmptyStore

(***************************************************************************)
(* C14  Interactive loop termination (as claimed).  The interactive loop   *)
(* returns when the input source delivers the exit command, and also when  *)
(* the input source reaches end-of-input: after end-of-input the loop is   *)
(* left and no further read is attempted.                                  *)
(***************************************************************************)
\* the last thing the step did was to meet the end of the input source
EndOfInput(evs) ==
    /\ Len(evs) > 0
    /\ evs[Len(evs)] = Ev("report", "Error", 0, Str("EOFError"))

C14_InteractiveLoopTermination ==
    [][(script_none /\ loc = "shell") =>
          /\ lower(line') = "exit" => loc' = "returned"
          /\ EndOfInput(events') => loc' = "returned"]_vars

(***************************************************************************)
(* C15  Script mode selection (as claimed).  Whenever a script is          *)
(* supplied, the empty line list included, run() executes it to completion *)
(* and never enters the interactive loop; the interactive loop is entered  *)
(* only when no script is supplied.                                        *)
(***************************************************************************)
C15_ScriptModeSelection ==
    ~script_none =>
        /\ loc # "shell"
        /\ loc = "returned" => program_counter >= Len(script_lines)

(***************************************************************************)
(* C16  Unknown command.  A line whose first token, in upper case, is not  *)
(* a registered command name reports "Unknown command", calls no handler,  *)
(* leaves the store as it was and assigns the counter nowhere; the script  *)
(* loop advances to the next line and the shell goes on.                   *)
(***************************************************************************)
C16_UnknownCommand ==
    [][(Execution /\ IsUnknownCommand(line'))
        => /\ Reports(events') = {"Unknown command"}
           /\ EventsOf(events', "call") = {}
           /\ EventsOf(events', "assign") = {}
           /\ variables' = variables
           /\ loc' = loc
           /\ program_counter' = IF loc = "loop" THEN program_counter + 1
                                 ELSE program_counter]_vars

\* the script loop met 'FOO 1 2' after a line that bound a name: reported,
\* the store kept, the loop at the next line
C16_Witness ==
    /\ Stepped
    /\ line = "FOO 1 2"
    /\ Reports(events) = {"Unknown command"}
    /\ variables # EmptyStore
    /\ program_counter = original_program_counter + 1

(***************************************************************************)
(* C17  Variable resolution (as claimed).  In every reachable store, for   *)
(* every name bound in it, resolving the token that spells the name        *)
(* returns the value the store holds for the name.                         *)
(***************************************************************************)
C17_VariableResolution ==
    \A k \in DOMAIN variables :
        IsStr(k) => parse_value(k.s, variables) = variables[k]

(***************************************************************************)
(* C18  Declaration idempotence.  For every well-formed declaration        *)
(* '<NAME = value>' and every store, executing the line a second time      *)
(* straight after the first leaves the store exactly as the first left it: *)
(* the same value under NAME, no other name bound or changed; and the      *)
(* first execution binds NAME to the resolved value and changes no other   *)
(* name.                                                                   *)
(***************************************************************************)
IsDeclaration(text) ==
    /\ startswith(strip(text), "<") /\ endswith(strip(text), ">")
    /\ ~IsMalformedDeclaration(text)

DeclaredName(text) ==
    Str(strip(split1(SubSeq(strip(text), 2, Len(strip(text)) - 1), "=")[1]))

DeclaredValue(text, store) ==
    parse_value(strip(split1(SubSeq(strip(text), 2, Len(strip(text)) - 1), "=")[2]), store)

C18_DeclarationIdempotence ==
    [][(ShellExecution /\ IsDeclaration(line'))
        => /\ variables' = store_set(variables, DeclaredName(line'),
                                     DeclaredValue(line', variables))
           /\ line' = line => variables' = variables]_vars

\* '<X = 2>' was executed over a store that held Y = 1 (bound from X = 1):
\* X is 2 and Y is as it was
C18_Witness ==
    /\ line = "<X = 2>"
    /\ Cardinality(EventsOf(events, "line")) = 1
    /\ variables[DeclaredName(line)] = Num(2, 1)
    /\ Str("Y") \in DOMAIN variables
    /\ variables[Str("Y")] = Num(1, 1)

(***************************************************************************)
(* C19  Store shape invariant (as claimed).  After any sequence of         *)
(* declarations and command lines every key of the store is a text name,   *)
(* never a number or another resolved value.  (That a name has one value   *)
(* is the store being a function.)                                         *)
(***************************************************************************)
C19_StoreShape ==
    \A k \in DOMAIN variables : IsStr(k)

(***************************************************************************)
(* C20  IF keyword shaping (as claimed).  The condition and branch tokens  *)
(* of an IF line reach the handler as the raw keywords, never resolved     *)
(* against the store: an IF line has the same outcome (the sub-script run  *)
(* or not, what is printed, what is reported) in a store that binds HIGH,  *)
(* LOW, EQUAL, THEN or ELSE as in the same store without those bindings.   *)
(***************************************************************************)
Keywords == {Str("HIGH"), Str("LOW"), Str("EQUAL"), Str("THEN"), Str("ELSE")}

WithoutKeywords(store) == [k \in DOMAIN store \ Keywords |-> store[k]]

IfOutcome(evs) ==
    [ran |-> SubScriptRan(evs),
     printed |-> {evs[i].v : i \in EventsOf(evs, "print")},
     reports |-> Reports(evs)]

\* the trace of the line executed in the store without the keyword bindings
UnshadowedTrace(text, store) ==
    execute_line(text, [fresh([kind |-> "eof", text |-> ""])
                           EXCEPT !.variables = WithoutKeywords(store)]).events

C20_KeywordShaping ==
    [][(ShellExecution /\ IsIfLine(line'))
        => IfOutcome(events') = IfOutcome(UnshadowedTrace(line', variables))]_vars

(***************************************************************************)
(* C21  PRINT behaviour (as claimed).  'PRINT f arg' with flag value 0     *)
(* prints the store's value of the raw name arg, or reports an undefined   *)
(* variable when arg is unbound; with flag value 1 it prints the joined    *)
(* literal text (one layer of surrounding quotes removed); with any other  *)
(* flag, numeric or not, it reports an error and prints nothing; in every  *)
(* case the store is unchanged and execution continues with the next line. *)
(***************************************************************************)
IsPrintLine(text) ==
    /\ Len(tokenize(strip(text))) >= 3
    /\ upper(tokenize(strip(text))[1]) = "PRINT"

\* what the line prints, in order
Printed(evs) == [i \in 1..Cardinality(EventsOf(evs, "print")) |->
                    evs[CHOOSE k \in EventsOf(evs, "print") :
                            Cardinality({j \in EventsOf(evs, "print") : j <= k}) = i].v]

\* the literal text of a flag-1 PRINT: the tokens after the flag joined by
\* single spaces, without one layer of surrounding quotes
PrintText(t) ==
    LET c == join(SubSeq(t, 3, Len(t)))
    IN  IF startswith(c, "\"") /\ endswith(c, "\"")
        THEN Str(SubSeq(c, 2, Len(c) - 1))
        ELSE Str(c)

PrintOutcome(t, store, evs) ==
    IF parse_value(t[2], store) = Num(0, 1)
    THEN IF Str(t[3]) \in DOMAIN store
         THEN Printed(evs) = <<store[Str(t[3])]>> /\ Reports(evs) = {}
         ELSE Printed(evs) = <<>> /\ Reports(evs) = {"Undefined variable"}
    ELSE IF parse_value(t[2], store) = Num(1, 1)
    THEN Printed(evs) = <<PrintText(t)>> /\ Reports(evs) = {}
    ELSE Printed(evs) = <<>> /\ Reports(evs) # {}

C21_PrintBehaviour ==
    [][(Execution /\ IsPrintLine(line'))
        => /\ PrintOutcome(tokenize(strip(line')), variables, events')
           /\ variables' = variables
           /\ loc' = loc
           /\ program_counter' = IF loc = "loop" THEN program_counter + 1
                                 ELSE program_counter]_vars

(***************************************************************************)
(* C22  Unknown IF keywords are reported (as claimed).  An IF line with    *)
(* numeric operands and a condition keyword outside HIGH, LOW, EQUAL, or a *)
(* branch keyword outside THEN, ELSE, reports an error, runs no            *)
(* sub-script, leaves the store unchanged, and execution continues.        *)
(***************************************************************************)
HasUnknownIfKeyword(text) ==
    /\ Len(tokenize(strip(text))) >= 6
    /\ upper(tokenize(strip(text))[1]) = "IF"
    /\ \/ upper(tokenize(strip(text))[4]) \notin {"HIGH", "LOW", "EQUAL"}
       \/ upper(tokenize(strip(text))[5]) \notin {"THEN", "ELSE"}

C22_UnknownIfKeywords ==
    [][(/\ Execution
        /\ HasUnknownIfKeyword(line')
        /\ NumericOperands(line', variables))
        => /\ Reports(events') # {}
           /\ ~SubScriptRan(events')
           /\ variables' = variables
           /\ loc' = loc
           /\ program_counter' = IF loc = "loop" THEN program_counter + 1
                                 ELSE program_counter]_vars

(***************************************************************************)
(* C23  Tokenizer.  For every line, tokenize returns, in order, the        *)
(* pieces between the spaces that are neither escaped nor inside a         *)
(* double-quoted region, each without its escape characters, the empty     *)
(* pieces left out: no token is empty, a quoted space stays inside its     *)
(* token, every quote character is kept, an escaped character is taken     *)
(* literally and neither opens nor closes a region nor splits, and a blank *)
(* or all-space line gives no token.                                       *)
(***************************************************************************)
\* character i follows an escape character that is itself not escaped
RECURSIVE Escaped(_, _)
Escaped(text, i) == i > 1 /\ Ch(text, i - 1) = "\\" /\ ~Escaped(text, i - 1)

\* character i is a quote that opens or closes a region
QuoteMark(text, i) == Ch(text, i) = "\"" /\ ~Escaped(text, i)

InQuotes(text, i) == Cardinality({j \in 1..(i - 1) : QuoteMark(text, j)}) % 2 = 1

\* character i is a space that ends a token
Separator(text, i) == Ch(text, i) = " " /\ ~Escaped(text, i) /\ ~InQuotes(text, i)

\* the characters lo..hi without the escape characters
RECURSIVE Kept(_, _, _)
Kept(text, lo, hi) ==
    IF lo > hi THEN ""
    ELSE (IF Ch(text, lo) = "\\" /\ ~Escaped(text, lo) THEN "" ELSE Ch(text, lo))
            \o Kept(text, lo + 1, hi)

\* the non-empty pieces between separators, from position start on
RECURSIVE SplitFrom(_, _)
SplitFrom(text, start) ==
    IF start > Len(text) THEN <<>>
    ELSE LET ends == {i \in start..Len(text) : Separator(text, i)} \cup {Len(text) + 1}
             piece == Kept(text, start, Least(ends) - 1)
         IN  (IF piece = "" THEN <<>> ELSE <<piece>>) \o SplitFrom(text, Least(ends) + 1)

CountOf(c, text) == Cardinality({i \in 1..Len(text) : Ch(text, i) = c})

RECURSIVE QuotesIn(_)
QuotesIn(tokens) ==
    IF Len(tokens) = 0 THEN 0 ELSE CountOf("\"", tokens[1]) + QuotesIn(Tail(tokens))

Returned == [i \in 1..Len(events) |-> events[i].tag]

C23_Tokenizer ==
    (loc = "returned" /\ (\A i \in 1..Len(events) : events[i].kind = "token")) =>
        /\ Returned = SplitFrom(line, 1)
        /\ \A i \in 1..Len(Returned) : Returned[i] # ""
        /\ QuotesIn(Returned) = CountOf("\"", line)
        /\ CountOf(" ", line) = Len(line) => Returned = <<>>

\* a quoted region with a space in it came back as one token, quotes kept
C23_Witness ==
    /\ loc = "returned"
    /\ line = "\"a a\""
    /\ Len(events) = 1
    /\ events[1].kind = "token"
    /\ events[1].tag = "\"a a\""

(***************************************************************************)
(* C24  Jump inside a branch.  When the script loop executes, at position  *)
(* p, an IF line whose sub-script is 'JUMP n': if the branch is taken,     *)
(* 1 <= n <= len(Script) and n - 1 # p, the counter is n - 1 after the     *)
(* iteration (no advance); if the branch is not taken the counter is       *)
(* p + 1; and every iteration executes the line at the counter, so the     *)
(* next line executed is Script[n - 1], respectively Script[p + 1].  A     *)
(* THEN branch whose condition is met is taken.                            *)
(***************************************************************************)
IsBranchJump(text) ==
    /\ IsIfLine(text)
    /\ Len(tokenize(strip(text))) = 7
    /\ upper(tokenize(strip(text))[6]) = "JUMP"

BranchTarget(text, store) == to_int(parse_value(tokenize(strip(text))[7], store))

BranchJumps(text, store, p) ==
    /\ BranchTarget(text, store).ok
    /\ 1 <= BranchTarget(text, store).i
    /\ BranchTarget(text, store).i <= Len(script_lines)
    /\ BranchTarget(text, store).i - 1 # p

C24_JumpInsideBranch ==
    [][ScriptIteration =>
          /\ line' = script_lines[program_counter + 1]
          /\ (IsBranchJump(line') /\ NumericOperands(line', variables)) =>
                /\ (Branch(line') = "THEN" /\ ConditionMet(line', variables))
                      => SubScriptRan(events')
                /\ (SubScriptRan(events') /\ BranchJumps(line', variables, program_counter))
                      => /\ program_counter' = BranchTarget(line', variables).i - 1
                         /\ loc' = "loop"
                /\ ~SubScriptRan(events')
                      => /\ program_counter' = program_counter + 1
                         /\ loc' = "loop"]_vars

\* the first line of a three-line script jumped from its branch to the third
C24_Witness ==
    /\ Stepped
    /\ loc = "loop"
    /\ Len(script_lines) = 3
    /\ line = "IF 5 3 HIGH THEN JUMP 3"
    /\ SubScriptRan(events)
    /\ original_program_counter = 0
    /\ program_counter = 2

(***************************************************************************)
(* C25  Straight-line termination.  For every non-empty script in which no *)
(* line holds a JUMP (nested sub-scripts included) and every line is a     *)
(* well-formed declaration or a correctly shaped non-blocking command, the *)
(* script loop executes Script[0], Script[1], ... each exactly once in     *)
(* that order (every iteration executes the line at the counter and moves  *)
(* the counter on by one) and then halts with the counter at len(Script).  *)
(* run() is sequential code, so the only run excluded from the halting     *)
(* part is the one in which the interpreter stops taking steps for good.   *)
(***************************************************************************)
\* a registered command with the arguments its pattern asks for, that does
\* not wait for input or the network
IsShapedCommand(text) ==
    /\ ~IsSyntaxError(text)
    /\ Len(tokenize(strip(text))) > 0
    /\ upper(tokenize(strip(text))[1]) \notin {"INPUT", "FCH", "FETCH", "PYTHON"}
    /\ upper(tokenize(strip(text))[1]) = "PRINT" => tokenize(strip(text))[2] \in {"0", "1"}
    /\ upper(tokenize(strip(text))[1]) = "IF" => IsIfLine(text)

StraightLine(script) ==
    /\ Len(script) > 0
    /\ \A i \in 1..Len(script) :
          /\ ~HasJump(script[i])
          /\ IsDeclaration(script[i]) \/ IsShapedCommand(script[i])

IfTokens(text) ==
    Cardinality({i \in 1..Len(tokenize(strip(text))) : upper(tokenize(strip(text))[i]) = "IF"})

\* the line executions of one trace, outermost first, with their depths
LineExecutions(evs) == SelectSeq(evs, LAMBDA e : e.kind = "line")

NestedBelow(evs) == Len(LineExecutions(evs)) - 1

FewerTokens(evs) ==
    \A i \in 2..Len(LineExecutions(evs)) :
        /\ LineExecutions(evs)[i].n = LineExecutions(evs)[i - 1].n + 1
        /\ Len(tokenize(strip(LineExecutions(evs)[i].tag)))
              < Len(tokenize(strip(LineExecutions(evs)[i - 1].tag)))

C26_BoundedBranchRecursion ==
    [][Execution =>
          /\ line' = LineExecutions(events')[1].tag
          /\ LineExecutions(events')[1].n = 1
          /\ FewerTokens(events')
          /\ NestedBelow(events') <= IfTokens(line')]_vars

====
